---- MODULE Spec2Model ----
(***************************************************************************)
(* Minesweeper core: Board (core/board.py), GameTimer (core/timer.py) and  *)
(* GameSession (game/session.py) as a state machine.                       *)
(*                                                                         *)
(* A cell is the pair <<x, y>>, x the column and y the row.  A call that   *)
(* raises is recorded in last.raised; the fields the call wrote before it  *)
(* raised keep their new values, as in the Python code.                    *)
(***************************************************************************)
EXTENDS Integers, Sequences, FiniteSets, TLC

VARIABLES
    mine_count,          \* Board.mine_count / SessionSettings.mine_count
    safe_zone_radius,    \* Board.safe_zone_radius
    use_question_marks,  \* Board.use_question_marks
    tiles,               \* Board._tiles : cell -> Tile
    mines_generated,     \* Board._mines_generated
    status,              \* GameSession._status
    is_paused,           \* GameSession._is_paused
    remaining_flags,     \* GameSession._remaining_flags
    start_time,          \* GameTimer._start_time (NoTime for None)
    accumulated_time,    \* GameTimer._accumulated_time
    running,             \* GameTimer._running
    now,                 \* time.monotonic()
    time_running,        \* history: the clock time spent with _running true
                         \* since the timer was last reset
    twin,                \* a second Board with the same settings
    construction,        \* a call Board(...): its arguments and its outcome
    current_screen,      \* AppState.current_screen
    session,             \* AppState.session: None, or the GameSession
    last_rules,          \* AppState.last_rules: None, or the rules
    last                 \* the last call and what it returned

vars == <<mine_count, safe_zone_radius, use_question_marks, tiles,
          mines_generated, status, is_paused, remaining_flags,
          start_time, accumulated_time, running, now, time_running,
          twin, construction, current_screen, session, last_rules, last>>

boardVars == <<tiles, mines_generated>>
configVars == <<mine_count, safe_zone_radius, use_question_marks>>
sessionVars == <<status, is_paused, remaining_flags>>
timerVars == <<start_time, accumulated_time, running>>
clockVars == <<now, time_running>>

\* what no call on the board of the session, the session or its timer writes
appVars == <<current_screen, session, last_rules>>
frameVars == <<configVars, twin, construction, appVars>>

---------------------------------------------------------------------------
(* core/settings.py *)

MIN_BOARD_WIDTH == 5
MIN_BOARD_HEIGHT == 5
MIN_MINES == 1

\* MAX_MINES_FACTOR = 0.85, in hundredths
MAX_MINES_FACTOR_PERCENT == 85

DEFAULT_SAFE_ZONE_RADIUS == 1
DEFAULT_USE_QUESTION_MARKS == TRUE

---------------------------------------------------------------------------
(* Bounds of the model *)

\* mine_count ranges over MIN_MINES..MaxMines
MaxMines == 2
\* safe_zone_radius ranges over 0..MaxRadius
MaxRadius == 2
\* the clock stops advancing at MaxClock in a session, and at MaxTimerClock
\* where only the timer is called
MaxClock == 2
MaxTimerClock == 20

\* Board(...) is called with sides up to MaxSide
MaxSide == 6

\* The board is the smallest one the constructor accepts.
width == MIN_BOARD_WIDTH
height == MIN_BOARD_HEIGHT

Cells == (0 .. width - 1) \X (0 .. height - 1)

---------------------------------------------------------------------------
(* core/enums.py *)

HIDDEN == "HIDDEN"
REVEALED == "REVEALED"
FLAGGED == "FLAGGED"
QUESTION == "QUESTION"
TileState == {HIDDEN, REVEALED, FLAGGED, QUESTION}

EMPTY == "EMPTY"
NUMBER == "NUMBER"
MINE == "MINE"
SPECIAL == "SPECIAL"
TileContent == {EMPTY, NUMBER, MINE, SPECIAL}

NOT_STARTED == "NOT_STARTED"
IN_PROGRESS == "IN_PROGRESS"
WON == "WON"
LOST == "LOST"
GameStatus == {NOT_STARTED, IN_PROGRESS, WON, LOST}

---------------------------------------------------------------------------
(* game/app_state.py : AppScreen, and the two references of AppState *)

MAIN_MENU == "MAIN_MENU"
GAME == "GAME"
PAUSE_MENU == "PAUSE_MENU"
SETTINGS == "SETTINGS"
CAMPAIGN_MENU == "CAMPAIGN_MENU"
GAME_OVER == "GAME_OVER"

None == "None"
TheSession == "GameSession"
TheRules == "GameRules"

---------------------------------------------------------------------------
(* core/board.py : Tile and the helpers of Board *)

\* Tile(): the dataclass defaults
NewTile == [is_mine |-> FALSE, state |-> HIDDEN, adjacent_mines |-> 0,
            content |-> EMPTY]

Abs(n) == IF n < 0 THEN -n ELSE n
Max(a, b) == IF a >= b THEN a ELSE b

in_bounds(x, y) == 0 <= x /\ x < width /\ 0 <= y /\ y < height

\* the (dx, dy) pairs in the order of the two nested loops, dy outermost
NeighborOffsets ==
    << <<-1, -1>>, <<0, -1>>, <<1, -1>>,
       <<-1, 0>>,             <<1, 0>>,
       <<-1, 1>>,  <<0, 1>>,  <<1, 1>> >>

InBoundsCell(c) == in_bounds(c[1], c[2])

get_neighbors(x, y) ==
    SelectSeq([i \in 1 .. Len(NeighborOffsets) |->
                  <<x + NeighborOffsets[i][1], y + NeighborOffsets[i][2]>>],
              InBoundsCell)

\* get_neighbors of every cell of the board, computed once
Neighbors == [c \in Cells |-> get_neighbors(c[1], c[2])]

\* every tile back to the initial one
ResetTiles == [c \in Cells |-> NewTile]

IsInSafeZoneMutLt(x, y, safe_x, safe_y) ==
    Max(Abs(x - safe_x), Abs(y - safe_y)) < safe_zone_radius

IsInSafeZone(x, y, safe_x, safe_y) ==
    LET dx == Abs(x - safe_x)
        dy == Abs(y - safe_y)
    IN  Max(dx, dy) <= safe_zone_radius

\* the cells in the order of "for y in range(height): for x in range(width)"
RowMajor == [i \in 1 .. width * height |->
                <<(i - 1) % width, (i - 1) \div width>>]

\* all_positions of place_mines: the cells outside the safe zone, row-major
AllPositions(safe_x, safe_y) ==
    LET Outside(c) == ~IsInSafeZone(c[1], c[2], safe_x, safe_y)
    IN  SelectSeq(RowMajor, Outside)

\* The sets that can be the first k elements of a shuffle of the elements
\* of s from index i on: every k-element subset.
RECURSIVE Prefixes(_, _, _)
Prefixes(s, i, k) ==
    IF k = 0 THEN {{}}
    ELSE IF Len(s) - i + 1 < k THEN {}
    ELSE {{s[i]} \cup p : p \in Prefixes(s, i + 1, k - 1)}
         \cup Prefixes(s, i + 1, k)

MinePositionsMutShort(all_positions) ==
    Prefixes(all_positions, 1, mine_count - 1)
        \cup Prefixes(all_positions, 1, mine_count)

\* random.shuffle(all_positions); all_positions[:mine_count]
MinePositions(all_positions) == Prefixes(all_positions, 1, mine_count)

\* The random source of the Board: the value that the call randbelow(n) of
\* a generator seeded with seed returns, a number in 0 .. n - 1. What
\* the model needs of a generator is that the value is a function of the
\* seed and of the calls made
Randbelow(seed, n) == (seed * seed + seed * n + 3) % n

\* x[i], x[j] = x[j], x[i]
Swapped(x, i, j) == [x EXCEPT ![i] = x[j], ![j] = x[i]]

\* random.shuffle(x) from the element i down: "for i in
\* reversed(range(1, len(x))): j = randbelow(i + 1); swap x[i], x[j]",
\* with the indices of the model one more than those of the list
RECURSIVE ShuffledFrom(_, _, _)
ShuffledFrom(x, i, seed) ==
    IF i < 2 THEN x
    ELSE ShuffledFrom(Swapped(x, i, Randbelow(seed, i) + 1), i - 1, seed)

SeededMinePositionsMutUnseeded(all_positions, seed) ==
    MinePositions(all_positions)

\* the outcomes of shuffle and all_positions[:mine_count] when the
\* generator was seeded with seed: one set of cells
SeededMinePositions(all_positions, seed) ==
    LET shuffled == ShuffledFrom(all_positions, Len(all_positions), seed)
    IN  {{shuffled[k] : k \in 1 .. mine_count}}

\* the loop "for x, y in mine_positions"
WithMines(t, mine_positions) ==
    [c \in Cells |->
        IF c \in mine_positions
        THEN [t[c] EXCEPT !.is_mine = TRUE, !.content = MINE]
        ELSE t[c]]

\* mines_around of one cell
MinesAround(t, c) ==
    LET ns == Neighbors[c]
    IN  Cardinality({i \in 1 .. Len(ns) : t[ns[i]].is_mine})

RecalculatedTileMutContent(t, c) ==
    IF t[c].is_mine
    THEN [t[c] EXCEPT !.adjacent_mines = 0, !.content = MINE]
    ELSE [t[c] EXCEPT !.adjacent_mines = MinesAround(t, c),
                      !.content = NUMBER]

RecalculatedTileMutCount(t, c) ==
    IF t[c].is_mine
    THEN [t[c] EXCEPT !.adjacent_mines = 0, !.content = MINE]
    ELSE LET ns == Neighbors[c]
             mines_around == IF \E i \in 1 .. Len(ns) : t[ns[i]].is_mine
                             THEN 1 ELSE 0
         IN  [t[c] EXCEPT !.adjacent_mines = mines_around,
                          !.content = IF mines_around = 0
                                      THEN EMPTY ELSE NUMBER]

\* the body of the loops of _recalculate_adjacent_mines for one tile
RecalculatedTile(t, c) ==
    IF t[c].is_mine
    THEN [t[c] EXCEPT !.adjacent_mines = 0, !.content = MINE]
    ELSE LET mines_around == MinesAround(t, c)
         IN  [t[c] EXCEPT !.adjacent_mines = mines_around,
                          !.content = IF mines_around = 0
                                      THEN EMPTY ELSE NUMBER]

RecalculateAdjacentMines(t) == [c \in Cells |-> RecalculatedTile(t, c)]


---------------------------------------------------------------------------
(* core/board.py : place_mines *)

NoError == "none"
BoardCoordinatesError == "BoardCoordinatesError"
BoardConfigurationError == "BoardConfigurationError"

\* the outcomes of the shuffle that a call place_mines(safe_x, safe_y) can
\* see; a call that raises before the shuffle draws nothing
ShuffleOutcomes(safe_x, safe_y) ==
    IF in_bounds(safe_x, safe_y)
       /\ Len(AllPositions(safe_x, safe_y)) >= mine_count
    THEN MinePositions(AllPositions(safe_x, safe_y))
    ELSE {{}}

\* the same for a generator seeded with seed
SeededShuffleOutcomes(safe_x, safe_y, seed) ==
    IF in_bounds(safe_x, safe_y)
       /\ Len(AllPositions(safe_x, safe_y)) >= mine_count
    THEN SeededMinePositions(AllPositions(safe_x, safe_y), seed)
    ELSE {{}}

place_minesMutNoCheck(t, generated, safe_x, safe_y, mine_positions) ==
    IF ~in_bounds(safe_x, safe_y)
    THEN [tiles |-> t, mines_generated |-> generated,
          raised |-> BoardCoordinatesError]
    ELSE [tiles |-> RecalculateAdjacentMines(
                        WithMines(ResetTiles, mine_positions)),
          mines_generated |-> TRUE,
          raised |-> NoError]

\* place_mines(safe_x, safe_y) on the tiles t, the shuffle giving
\* mine_positions
place_mines(t, generated, safe_x, safe_y, mine_positions) ==
    IF ~in_bounds(safe_x, safe_y)
    THEN [tiles |-> t, mines_generated |-> generated,
          raised |-> BoardCoordinatesError]
    ELSE IF Len(AllPositions(safe_x, safe_y)) < mine_count
    THEN [tiles |-> ResetTiles, mines_generated |-> generated,
          raised |-> BoardConfigurationError]
    ELSE [tiles |-> RecalculateAdjacentMines(
                        WithMines(ResetTiles, mine_positions)),
          mines_generated |-> TRUE,
          raised |-> NoError]

---------------------------------------------------------------------------
(* core/board.py : is_win, _flood_reveal, open_tile, toggle_flag *)

\* the two loops of is_win from the i-th tile on, with the early return
RECURSIVE IsWinFrom(_, _)
IsWinFrom(t, i) ==
    IF i > Len(RowMajor) THEN TRUE
    ELSE IF ~t[RowMajor[i]].is_mine /\ t[RowMajor[i]].state # REVEALED
    THEN FALSE
    ELSE IsWinFrom(t, i + 1)

\* is_win()
is_win(t) == IsWinFrom(t, 1)

FloodSkipsMutNoRevealedCheck(tile) ==
    \/ tile.state \in {FLAGGED, QUESTION}
    \/ tile.is_mine

FloodSkipsMutNoMarkCheck(tile) ==
    \/ tile.state = REVEALED
    \/ tile.is_mine

\* the three "continue" tests on a popped tile
FloodSkips(tile) ==
    \/ tile.state = REVEALED
    \/ tile.state \in {FLAGGED, QUESTION}
    \/ tile.is_mine

FloodPropagatesMutAlways(tile) == TRUE

\* a revealed tile pushes its neighbours unless adjacent_mines != 0
FloodPropagates(tile) == tile.adjacent_mines = 0

\* the neighbours a revealed zero tile appends to the queue
FloodPushed(t, cx, cy) ==
    LET IsHidden(n) == t[n].state = HIDDEN
    IN  SelectSeq(Neighbors[<<cx, cy>>], IsHidden)

\* The number of cells the loop pops and skips before it pops one that it
\* reveals, Len(queue) when it skips them all: queue.pop() takes the last
\* element, and a skipped cell changes nothing.
SkippedPops(queue, t) ==
    LET n == Len(queue)
    IN  CHOOSE j \in 0 .. n :
            /\ j = n \/ ~FloodSkips(t[queue[n - j]])
            /\ \A k \in 0 .. j - 1 : FloodSkips(t[queue[n - k]])

\* the while loop of _flood_reveal, one revealed cell at a time
RECURSIVE FloodLoop(_, _, _)
FloodLoop(queue, t, changed) ==
    LET i == Len(queue) - SkippedPops(queue, t)
    IN  IF i = 0
        THEN [tiles |-> t, changed |-> changed]
        ELSE LET c == queue[i]
                 rest == SubSeq(queue, 1, i - 1)
                 t2 == [t EXCEPT ![c].state = REVEALED]
                 changed2 == Append(changed, c)
             IN  IF ~FloodPropagates(t2[c])
                 THEN FloodLoop(rest, t2, changed2)
                 ELSE FloodLoop(rest \o FloodPushed(t2, c[1], c[2]),
                                t2, changed2)

flood_reveal(t, x, y, changed) == FloodLoop(<< <<x, y>> >>, t, changed)

\* the value of "won" in the last return of open_tile
WonAfterRevealMutBefore(before, after) == is_win(before)

WonAfterReveal(before, after) == is_win(after)

RevealTileMutRevealedNotWon(t, x, y) ==
    LET c == <<x, y>>
    IN  IF t[c].state = REVEALED
        THEN [tiles |-> t, changed |-> << >>, exploded |-> FALSE,
              won |-> FALSE, flood |-> FALSE]
        ELSE IF t[c].is_mine
        THEN [tiles |-> [t EXCEPT ![c].state = REVEALED],
              changed |-> << c >>, exploded |-> TRUE, won |-> FALSE,
              flood |-> FALSE]
        ELSE IF t[c].adjacent_mines = 0
        THEN LET f == flood_reveal(t, x, y, << >>)
             IN  [tiles |-> f.tiles, changed |-> f.changed,
                  exploded |-> FALSE, won |-> WonAfterReveal(t, f.tiles),
                  flood |-> TRUE]
        ELSE LET t2 == [t EXCEPT ![c].state = REVEALED]
             IN  [tiles |-> t2, changed |-> << c >>, exploded |-> FALSE,
                  won |-> WonAfterReveal(t, t2), flood |-> FALSE]

RevealTileMutNoMineBranch(t, x, y) ==
    LET c == <<x, y>>
    IN  IF t[c].state = REVEALED
        THEN [tiles |-> t, changed |-> << >>, exploded |-> FALSE,
              won |-> is_win(t), flood |-> FALSE]
        ELSE IF t[c].adjacent_mines = 0
        THEN LET f == flood_reveal(t, x, y, << >>)
             IN  [tiles |-> f.tiles, changed |-> f.changed,
                  exploded |-> FALSE, won |-> WonAfterReveal(t, f.tiles),
                  flood |-> TRUE]
        ELSE LET t2 == [t EXCEPT ![c].state = REVEALED]
             IN  [tiles |-> t2, changed |-> << c >>, exploded |-> FALSE,
                  won |-> WonAfterReveal(t, t2), flood |-> FALSE]

\* open_tile from "changed = []" on: t are the tiles after the placement,
\* if it ran
RevealTile(t, x, y) ==
    LET c == <<x, y>>
    IN  IF t[c].state = REVEALED
        THEN [tiles |-> t, changed |-> << >>, exploded |-> FALSE,
              won |-> is_win(t), flood |-> FALSE]
        ELSE IF t[c].is_mine
        THEN [tiles |-> [t EXCEPT ![c].state = REVEALED],
              changed |-> << c >>, exploded |-> TRUE, won |-> FALSE,
              flood |-> FALSE]
        ELSE IF t[c].adjacent_mines = 0
        THEN LET f == flood_reveal(t, x, y, << >>)
             IN  [tiles |-> f.tiles, changed |-> f.changed,
                  exploded |-> FALSE, won |-> WonAfterReveal(t, f.tiles),
                  flood |-> TRUE]
        ELSE LET t2 == [t EXCEPT ![c].state = REVEALED]
             IN  [tiles |-> t2, changed |-> << c >>, exploded |-> FALSE,
                  won |-> WonAfterReveal(t, t2), flood |-> FALSE]

\* the outcomes of the shuffle that open_tile(x, y, safe_first_click) can see
OpenShuffleOutcomes(generated, x, y, safe_first_click) ==
    IF in_bounds(x, y) /\ ~generated /\ safe_first_click
    THEN ShuffleOutcomes(x, y)
    ELSE {{}}

NoResult == [changed |-> << >>, exploded |-> FALSE, won |-> FALSE,
             flood |-> FALSE]

\* the same for a generator seeded with seed
SeededOpenShuffleOutcomes(generated, x, y, safe_first_click, seed) ==
    IF in_bounds(x, y) /\ ~generated /\ safe_first_click
    THEN SeededShuffleOutcomes(x, y, seed)
    ELSE {{}}

RunsPlacementMutEveryTime(generated, safe_first_click) == safe_first_click

\* the test under which open_tile calls place_mines
RunsPlacement(generated, safe_first_click) ==
    ~generated /\ safe_first_click

\* open_tile(x, y, safe_first_click=...) on the tiles t
open_tile(t, generated, x, y, safe_first_click, mine_positions) ==
    IF ~in_bounds(x, y)
    THEN [tiles |-> t, mines_generated |-> generated,
          raised |-> BoardCoordinatesError, placed |-> FALSE,
          result |-> NoResult]
    ELSE LET places == RunsPlacement(generated, safe_first_click)
             p == IF places
                  THEN place_mines(t, generated, x, y, mine_positions)
                  ELSE [tiles |-> t, mines_generated |-> generated,
                        raised |-> NoError]
         IN  IF p.raised # NoError
             THEN [tiles |-> p.tiles, mines_generated |-> p.mines_generated,
                   raised |-> p.raised, placed |-> FALSE,
                   result |-> NoResult]
             ELSE LET r == RevealTile(p.tiles, x, y)
                  IN  [tiles |-> r.tiles,
                       mines_generated |-> p.mines_generated,
                       raised |-> NoError, placed |-> places,
                       result |-> [changed |-> r.changed,
                                   exploded |-> r.exploded,
                                   won |-> r.won, flood |-> r.flood]]

ToggledMutFlagToHidden(state) ==
    IF state = REVEALED THEN [state |-> REVEALED, delta |-> 0]
    ELSE IF state = HIDDEN THEN [state |-> FLAGGED, delta |-> 1]
    ELSE IF state = FLAGGED THEN [state |-> HIDDEN, delta |-> -1]
    ELSE [state |-> HIDDEN, delta |-> 0]

ToggledMutRevealed(state) ==
    IF state \in {HIDDEN, REVEALED} THEN [state |-> FLAGGED, delta |-> 1]
    ELSE IF state = FLAGGED
    THEN IF use_question_marks
         THEN [state |-> QUESTION, delta |-> -1]
         ELSE [state |-> HIDDEN, delta |-> -1]
    ELSE [state |-> HIDDEN, delta |-> 0]

\* the chain of tests of toggle_flag on the state of the tile: the new
\* state and the returned delta
Toggled(state) ==
    IF state = REVEALED THEN [state |-> REVEALED, delta |-> 0]
    ELSE IF state = HIDDEN THEN [state |-> FLAGGED, delta |-> 1]
    ELSE IF state = FLAGGED
    THEN IF use_question_marks
         THEN [state |-> QUESTION, delta |-> -1]
         ELSE [state |-> HIDDEN, delta |-> -1]
    ELSE IF state = QUESTION THEN [state |-> HIDDEN, delta |-> 0]
    ELSE [state |-> state, delta |-> 0]

\* toggle_flag(x, y) on the tiles t
toggle_flag(t, x, y) ==
    IF ~in_bounds(x, y)
    THEN [tiles |-> t, raised |-> BoardCoordinatesError, delta |-> 0]
    ELSE LET n == Toggled(t[<<x, y>>].state)
         IN  [tiles |-> [t EXCEPT ![<<x, y>>].state = n.state],
              raised |-> NoError, delta |-> n.delta]

---------------------------------------------------------------------------
(* core/board.py : get_tile and the getters built on it *)

get_tileMutWraps(t, x, y) ==
    [raised |-> NoError, returned |-> {t[<<x % width, y % height>>]}]

\* get_tile(x, y): the error raised and the values returned, none when it
\* raises
get_tile(t, x, y) ==
    IF ~in_bounds(x, y)
    THEN [raised |-> BoardCoordinatesError, returned |-> {}]
    ELSE [raised |-> NoError, returned |-> {t[<<x, y>>]}]

get_tile_state(t, x, y) ==
    [raised |-> get_tile(t, x, y).raised,
     returned |-> {tile.state : tile \in get_tile(t, x, y).returned}]

get_adjacent_mines(t, x, y) ==
    [raised |-> get_tile(t, x, y).raised,
     returned |-> {tile.adjacent_mines : tile \in get_tile(t, x, y).returned}]

is_mine(t, x, y) ==
    [raised |-> get_tile(t, x, y).raised,
     returned |-> {tile.is_mine : tile \in get_tile(t, x, y).returned}]

---------------------------------------------------------------------------
(* core/timer.py : GameTimer, as functions of the timer's three fields *)

\* None in _start_time
NoTime == -1

\* time.monotonic() counts seconds with a fraction: the clock of the model
\* counts units of 1 / TicksPerSecond of a second
TicksPerSecond == 2

Timer == [start_time |-> start_time, accumulated_time |-> accumulated_time,
          running |-> running]

TimerStartMutNoStart(tm) == tm

TimerStartMutMovesAnchor(tm) ==
    [tm EXCEPT !.start_time = now, !.running = TRUE]

\* start()
TimerStart(tm) ==
    IF tm.running THEN tm
    ELSE [tm EXCEPT !.start_time = now, !.running = TRUE]

TimerPauseMutKeepsRunning(tm) == tm

\* pause()
TimerPause(tm) ==
    IF ~tm.running \/ tm.start_time = NoTime THEN tm
    ELSE [start_time |-> NoTime,
          accumulated_time |-> tm.accumulated_time + (now - tm.start_time),
          running |-> FALSE]

TimerResumeMutResets(tm) ==
    IF tm.running THEN tm
    ELSE [start_time |-> now, accumulated_time |-> 0, running |-> TRUE]

\* resume()
TimerResume(tm) ==
    IF tm.running THEN tm
    ELSE [tm EXCEPT !.start_time = now, !.running = TRUE]

TimerResetMutKeepsAccumulated ==
    [start_time |-> NoTime, accumulated_time |-> accumulated_time,
     running |-> FALSE]

\* reset()
TimerReset == [start_time |-> NoTime, accumulated_time |-> 0,
               running |-> FALSE]

\* get_elapsed_seconds: int(total) drops the part of total below a second
get_elapsed_seconds(tm) ==
    LET total == IF tm.running /\ tm.start_time # NoTime
                 THEN tm.accumulated_time + (now - tm.start_time)
                 ELSE tm.accumulated_time
    IN  total \div TicksPerSecond

TimerAfterReadMutPauses(tm) == TimerPause(tm)

\* the fields of the timer after get_elapsed_seconds, which writes none
TimerAfterRead(tm) == tm

SetTimer(tm) ==
    /\ start_time' = tm.start_time
    /\ accumulated_time' = tm.accumulated_time
    /\ running' = tm.running

---------------------------------------------------------------------------
(* The record of the last call *)

Call(name, op, x, y, safe_first_click) ==
    [call |-> name, op |-> op, x |-> x, y |-> y,
     safe_first_click |-> safe_first_click,
     raised |-> NoError, returned_none |-> FALSE, placed |-> FALSE,
     flood |-> FALSE, changed |-> << >>, exploded |-> FALSE, won |-> FALSE,
     delta |-> 0, elapsed |-> 0, at |-> now, found |-> status,
     returned |-> {}]

OpenCall(name, x, y, safe_first_click, o) ==
    [Call(name, "open_tile", x, y, safe_first_click) EXCEPT
        !.raised = o.raised, !.placed = o.placed,
        !.flood = o.result.flood, !.changed = o.result.changed,
        !.exploded = o.result.exploded, !.won = o.result.won]

---------------------------------------------------------------------------
(* core/board.py : Board.__init__ and _validate_dimensions *)

\* int(cell_count * MAX_MINES_FACTOR), raised to MIN_MINES when below it
MaxMinesByFactor(cell_count) ==
    LET max_mines_by_factor ==
            (cell_count * MAX_MINES_FACTOR_PERCENT) \div 100
    IN  IF max_mines_by_factor < MIN_MINES THEN MIN_MINES
        ELSE max_mines_by_factor

validate_dimensionsMutNoHeight(w, h, m) ==
    IF w < MIN_BOARD_WIDTH THEN BoardConfigurationError
    ELSE IF w * h <= 0 THEN BoardConfigurationError
    ELSE IF m < MIN_MINES THEN BoardConfigurationError
    ELSE IF m >= w * h THEN BoardConfigurationError
    ELSE IF m > MaxMinesByFactor(w * h) THEN BoardConfigurationError
    ELSE NoError

\* Board._validate_dimensions: the error it raises, NoError when it returns
validate_dimensions(w, h, m) ==
    IF w < MIN_BOARD_WIDTH THEN BoardConfigurationError
    ELSE IF h < MIN_BOARD_HEIGHT THEN BoardConfigurationError
    ELSE IF w * h <= 0 THEN BoardConfigurationError
    ELSE IF m < MIN_MINES THEN BoardConfigurationError
    ELSE IF m >= w * h THEN BoardConfigurationError
    ELSE IF m > MaxMinesByFactor(w * h) THEN BoardConfigurationError
    ELSE NoError

\* the attributes that Board.__init__ assigns, in its order
BoardFields == <<"width", "height", "mine_count", "safe_zone_radius",
                 "use_question_marks", "_tiles", "_random",
                 "_mines_generated">>

\* the Board that __init__ leaves when it returns
BuiltBoard(w, h, m, r, uqm) ==
    [width |-> w, height |-> h, mine_count |-> m, safe_zone_radius |-> r,
     use_question_marks |-> uqm,
     tiles |-> [c \in (0 .. w - 1) \X (0 .. h - 1) |-> NewTile],
     mines_generated |-> FALSE]

\* Board(w, h, m, r, uqm): the error raised, the attributes assigned before
\* the call ended, and the objects the caller gets (none when it raises)
BoardInit(w, h, m, r, uqm) ==
    IF validate_dimensions(w, h, m) # NoError
    THEN [raised |-> validate_dimensions(w, h, m), assigned |-> {},
          objects |-> {}]
    ELSE IF r < 0
    THEN [raised |-> BoardConfigurationError, assigned |-> {},
          objects |-> {}]
    ELSE [raised |-> NoError,
          assigned |-> {BoardFields[i] : i \in 1 .. Len(BoardFields)},
          objects |-> {BuiltBoard(w, h, m, r, uqm)}]

\* no call Board(...) besides the one that made the board of the session
NoConstruction ==
    [called |-> FALSE, width |-> 0, height |-> 0, mine_count |-> 0,
     safe_zone_radius |-> 0, use_question_marks |-> FALSE,
     raised |-> NoError, assigned |-> {}, objects |-> {}]

---------------------------------------------------------------------------
(* Calls made on the Board itself *)

\* Board(w, h, m, r, uqm), a construction apart from the board in play
BoardConstruct(w, h, m, r, uqm) ==
    \E o \in {BoardInit(w, h, m, r, uqm)} :
        /\ construction' =
               [called |-> TRUE, width |-> w, height |-> h, mine_count |-> m,
                safe_zone_radius |-> r, use_question_marks |-> uqm,
                raised |-> o.raised, assigned |-> o.assigned,
                objects |-> o.objects]
        /\ last' = [Call("Board", "construct", 0, 0, FALSE)
                        EXCEPT !.raised = o.raised]
        /\ UNCHANGED <<configVars, twin, appVars, boardVars, sessionVars, timerVars,
                       clockVars>>

\* board.place_mines(x, y)
BoardPlaceMines(x, y) ==
    \E mine_positions \in ShuffleOutcomes(x, y) :
        \E o \in {place_mines(tiles, mines_generated, x, y, mine_positions)} :
            /\ tiles' = o.tiles
            /\ mines_generated' = o.mines_generated
            /\ last' = [Call("Board.place_mines", "place_mines", x, y, FALSE)
                            EXCEPT !.raised = o.raised,
                                   !.placed = (o.raised = NoError)]
            /\ UNCHANGED <<frameVars, sessionVars, timerVars, clockVars>>

\* board.open_tile(x, y, safe_first_click=safe_first_click)
BoardOpenTile(x, y, safe_first_click) ==
    \E mine_positions \in
            OpenShuffleOutcomes(mines_generated, x, y, safe_first_click) :
        \E o \in {open_tile(tiles, mines_generated, x, y, safe_first_click,
                             mine_positions)} :
            /\ tiles' = o.tiles
            /\ mines_generated' = o.mines_generated
            /\ last' = OpenCall("Board.open_tile", x, y, safe_first_click, o)
            /\ UNCHANGED <<frameVars, sessionVars, timerVars, clockVars>>

\* board.toggle_flag(x, y)
BoardToggleFlag(x, y) ==
    \E o \in {toggle_flag(tiles, x, y)} :
        /\ tiles' = o.tiles
        /\ last' = [Call("Board.toggle_flag", "toggle_flag", x, y, FALSE)
                        EXCEPT !.raised = o.raised, !.delta = o.delta]
        /\ UNCHANGED <<mines_generated, frameVars, sessionVars, timerVars,
                       clockVars>>

\* a getter of the Board called with (x, y): it writes nothing
Getter(name, op, x, y, o) ==
    /\ last' = [Call(name, op, x, y, FALSE)
                    EXCEPT !.raised = o.raised, !.returned = o.returned]
    /\ UNCHANGED <<boardVars, frameVars, sessionVars, timerVars, clockVars>>

BoardGetTile(x, y) ==
    Getter("Board.get_tile", "get_tile", x, y, get_tile(tiles, x, y))

BoardGetTileState(x, y) ==
    Getter("Board.get_tile_state", "get_tile_state", x, y,
           get_tile_state(tiles, x, y))

BoardGetAdjacentMines(x, y) ==
    Getter("Board.get_adjacent_mines", "get_adjacent_mines", x, y,
           get_adjacent_mines(tiles, x, y))

BoardIsMine(x, y) ==
    Getter("Board.is_mine", "is_mine", x, y, is_mine(tiles, x, y))

---------------------------------------------------------------------------
(* Two Boards with the same settings, their generators seeded alike, that
   get the same calls *)

\* Board(...): the tiles, the flag and, for the record, the outcome of
\* the last call
NewBoard == [tiles |-> ResetTiles, mines_generated |-> FALSE,
             raised |-> NoError, result |-> NoResult, delta |-> 0]

\* open_tile(x, y) on both boards; the first reveal seeds both generators
\* with seed
TwinOpenTile(x, y, seed) ==
    \E mine_positions \in
            SeededOpenShuffleOutcomes(mines_generated, x, y, TRUE, seed),
       twin_positions \in
            SeededOpenShuffleOutcomes(twin.mines_generated, x, y, TRUE,
                                      seed) :
        \E o \in {open_tile(tiles, mines_generated, x, y, TRUE,
                             mine_positions)},
           o2 \in {open_tile(twin.tiles, twin.mines_generated, x, y, TRUE,
                              twin_positions)} :
            /\ tiles' = o.tiles
            /\ mines_generated' = o.mines_generated
            /\ last' = OpenCall("Board.open_tile", x, y, TRUE, o)
            /\ twin' = [tiles |-> o2.tiles,
                        mines_generated |-> o2.mines_generated,
                        raised |-> o2.raised, result |-> o2.result,
                        delta |-> 0]
            /\ UNCHANGED <<configVars, construction, appVars, sessionVars,
                           timerVars, clockVars>>

\* toggle_flag(x, y) on both boards
TwinToggleFlag(x, y) ==
    \E o \in {toggle_flag(tiles, x, y)},
       o2 \in {toggle_flag(twin.tiles, x, y)} :
        /\ tiles' = o.tiles
        /\ last' = [Call("Board.toggle_flag", "toggle_flag", x, y, FALSE)
                        EXCEPT !.raised = o.raised, !.delta = o.delta]
        /\ twin' = [twin EXCEPT !.tiles = o2.tiles, !.raised = o2.raised,
                                !.result = NoResult, !.delta = o2.delta]
        /\ UNCHANGED <<mines_generated, configVars, construction, appVars,
                       sessionVars, timerVars, clockVars>>

---------------------------------------------------------------------------
(* game/rules.py : the classic rules hand both calls to the Board *)

RulesOpenTile(t, generated, x, y, mine_positions) ==
    open_tile(t, generated, x, y, TRUE, mine_positions)

RulesToggleFlag(t, x, y) == toggle_flag(t, x, y)

---------------------------------------------------------------------------
(* game/session.py : GameSession *)

ensure_can_playMutIgnoresStatus ==
    IF is_paused THEN FALSE ELSE TRUE

ensure_can_playMutIgnoresPause ==
    IF status \in {WON, LOST} THEN FALSE ELSE TRUE

\* _ensure_can_play()
ensure_can_play ==
    IF is_paused THEN FALSE
    ELSE IF status \in {WON, LOST} THEN FALSE
    ELSE TRUE

SessionAfterOpenMutNoLost(o) ==
    LET started == status = NOT_STARTED
        status1 == IF started THEN IN_PROGRESS ELSE status
        timer1 == IF started THEN TimerStart(Timer) ELSE Timer
    IN  IF o.raised # NoError
        THEN [status |-> status1, timer |-> timer1]
        ELSE IF o.result.won
        THEN [status |-> WON, timer |-> TimerPause(timer1)]
        ELSE [status |-> status1, timer |-> timer1]

SessionAfterOpenMutWonFirst(o) ==
    LET started == status = NOT_STARTED
        status1 == IF started THEN IN_PROGRESS ELSE status
        timer1 == IF started THEN TimerStart(Timer) ELSE Timer
    IN  IF o.raised # NoError
        THEN [status |-> status1, timer |-> timer1]
        ELSE IF o.result.won
        THEN [status |-> WON, timer |-> TimerPause(timer1)]
        ELSE IF o.result.exploded
        THEN [status |-> LOST, timer |-> TimerPause(timer1)]
        ELSE [status |-> status1, timer |-> timer1]

\* open_tile after the guard: the status and the timer it leaves when the
\* call of the rules has the outcome o; an exception of the rules leaves
\* what was written before their call
SessionAfterOpen(o) ==
    LET started == status = NOT_STARTED
        status1 == IF started THEN IN_PROGRESS ELSE status
        timer1 == IF started THEN TimerStart(Timer) ELSE Timer
    IN  IF o.raised # NoError
        THEN [status |-> status1, timer |-> timer1]
        ELSE IF o.result.exploded
        THEN [status |-> LOST, timer |-> TimerPause(timer1)]
        ELSE IF o.result.won
        THEN [status |-> WON, timer |-> TimerPause(timer1)]
        ELSE [status |-> status1, timer |-> timer1]

\* session.open_tile(x, y) when the rules have the outcome o
SessionOpenTileWith(x, y, o) ==
    \E after \in {SessionAfterOpen(o)} :
        /\ tiles' = o.tiles
        /\ mines_generated' = o.mines_generated
        /\ last' = OpenCall("GameSession.open_tile", x, y, TRUE, o)
        /\ status' = after.status
        /\ SetTimer(after.timer)
        /\ UNCHANGED <<frameVars, is_paused, remaining_flags, clockVars>>

\* session.open_tile(x, y) when the guard refuses the call
SessionOpenTileRefused(x, y) ==
    /\ last' = [Call("GameSession.open_tile", "none", x, y, TRUE)
                    EXCEPT !.returned_none = TRUE]
    /\ UNCHANGED <<boardVars, frameVars, sessionVars, timerVars,
                   clockVars>>

\* session.open_tile(x, y), the rules being the classic ones
SessionOpenTile(x, y) ==
    IF ~ensure_can_play
    THEN SessionOpenTileRefused(x, y)
    ELSE \E mine_positions \in
                 OpenShuffleOutcomes(mines_generated, x, y, TRUE) :
             SessionOpenTileWith(x, y,
                 RulesOpenTile(tiles, mines_generated, x, y,
                               mine_positions))

\* the results a GameRules object may return: the session reads exploded
\* and won only
AnyResults ==
    [changed : {<< >>}, exploded : BOOLEAN, won : BOOLEAN, flood : {FALSE}]

\* session.open_tile(x, y), the rules being any GameRules object: one
\* that returns result and leaves the board as it is
SessionOpenTileAnyRules(x, y, result) ==
    IF ~ensure_can_play
    THEN SessionOpenTileRefused(x, y)
    ELSE SessionOpenTileWith(x, y,
             [tiles |-> tiles, mines_generated |-> mines_generated,
              raised |-> NoError, placed |-> FALSE, result |-> result])

RemainingFlagsAfterMutNoClamp(flags, delta) == flags - delta

\* the update of _remaining_flags in toggle_flag
RemainingFlagsAfter(flags, delta) ==
    IF delta = 0 THEN flags
    ELSE IF flags - delta < 0 THEN 0
    ELSE IF flags - delta > mine_count THEN mine_count
    ELSE flags - delta

SessionToggleFlagMutStarts(x, y) ==
    IF ~ensure_can_play
    THEN /\ last' = [Call("GameSession.toggle_flag", "none", x, y, FALSE)
                        EXCEPT !.returned_none = TRUE]
         /\ UNCHANGED <<boardVars, frameVars, sessionVars, timerVars, clockVars>>
    ELSE \E o \in {RulesToggleFlag(tiles, x, y)} :
             /\ tiles' = o.tiles
             /\ last' = [Call("GameSession.toggle_flag", "toggle_flag",
                              x, y, FALSE)
                            EXCEPT !.raised = o.raised, !.delta = o.delta]
             /\ remaining_flags' =
                    IF o.raised # NoError THEN remaining_flags
                    ELSE RemainingFlagsAfter(remaining_flags, o.delta)
             /\ status' = IF status = NOT_STARTED THEN IN_PROGRESS
                           ELSE status
             /\ SetTimer(IF status = NOT_STARTED THEN TimerStart(Timer)
                         ELSE Timer)
             /\ UNCHANGED <<mines_generated, frameVars, is_paused,
                            clockVars>>

\* session.toggle_flag(x, y)
SessionToggleFlag(x, y) ==
    IF ~ensure_can_play
    THEN /\ last' = [Call("GameSession.toggle_flag", "none", x, y, FALSE)
                        EXCEPT !.returned_none = TRUE]
         /\ UNCHANGED <<boardVars, frameVars, sessionVars, timerVars, clockVars>>
    ELSE \E o \in {RulesToggleFlag(tiles, x, y)} :
             /\ tiles' = o.tiles
             /\ last' = [Call("GameSession.toggle_flag", "toggle_flag",
                              x, y, FALSE)
                            EXCEPT !.raised = o.raised, !.delta = o.delta]
             /\ remaining_flags' =
                    IF o.raised # NoError THEN remaining_flags
                    ELSE RemainingFlagsAfter(remaining_flags, o.delta)
             /\ UNCHANGED <<mines_generated, frameVars, status, is_paused,
                            timerVars, clockVars>>

\* session.restart()
SessionRestart ==
    /\ SetTimer(TimerReset)
    /\ tiles' = ResetTiles
    /\ mines_generated' = FALSE
    /\ status' = NOT_STARTED
    /\ is_paused' = FALSE
    /\ remaining_flags' = mine_count
    /\ last' = Call("GameSession.restart", "none", 0, 0, FALSE)
    /\ time_running' = 0
    /\ UNCHANGED <<frameVars, now>>

PausedMutAnyStatus ==
    IF is_paused THEN [is_paused |-> is_paused, timer |-> Timer]
    ELSE [is_paused |-> TRUE, timer |-> TimerPause(Timer)]

\* pause(): the pause flag and the timer it leaves
Paused ==
    IF is_paused THEN [is_paused |-> is_paused, timer |-> Timer]
    ELSE IF status # IN_PROGRESS
    THEN [is_paused |-> is_paused, timer |-> Timer]
    ELSE [is_paused |-> TRUE, timer |-> TimerPause(Timer)]

ResumedMutRunningKeepsStopped ==
    IF ~is_paused THEN [is_paused |-> is_paused, timer |-> Timer]
    ELSE [is_paused |-> FALSE, timer |-> Timer]

\* resume(): the pause flag and the timer it leaves
Resumed ==
    IF ~is_paused THEN [is_paused |-> is_paused, timer |-> Timer]
    ELSE IF status # IN_PROGRESS
    THEN [is_paused |-> FALSE, timer |-> Timer]
    ELSE [is_paused |-> FALSE, timer |-> TimerResume(Timer)]

\* a call that writes the pause flag and the timer only
PauseCall(name, after) ==
    /\ last' = Call(name, "none", 0, 0, FALSE)
    /\ is_paused' = after.is_paused
    /\ SetTimer(after.timer)
    /\ UNCHANGED <<boardVars, frameVars, status, remaining_flags, clockVars>>

\* session.pause()
SessionPause == PauseCall("GameSession.pause", Paused)

\* session.resume()
SessionResume == PauseCall("GameSession.resume", Resumed)

\* session.toggle_pause()
SessionTogglePause ==
    PauseCall("GameSession.toggle_pause",
              IF is_paused THEN Resumed ELSE Paused)

\* session.get_elapsed_seconds(), and the property timer_value
SessionGetElapsedSeconds ==
    /\ last' = [Call("GameSession.get_elapsed_seconds", "none", 0, 0, FALSE)
                    EXCEPT !.elapsed = get_elapsed_seconds(Timer)]
    /\ SetTimer(TimerAfterRead(Timer))
    /\ UNCHANGED <<boardVars, frameVars, sessionVars, clockVars>>

---------------------------------------------------------------------------
(* game/app_state.py : AppStateManager *)

\* a method that writes current_screen only
ShowScreen(name, screen) ==
    /\ last' = Call(name, "none", 0, 0, FALSE)
    /\ current_screen' = screen
    /\ UNCHANGED <<session, last_rules, configVars, twin, construction,
                   boardVars, sessionVars, timerVars, clockVars>>

\* a method that returns before it writes anything
AppReturns(name) ==
    /\ last' = Call(name, "none", 0, 0, FALSE)
    /\ UNCHANGED <<frameVars, boardVars, sessionVars, timerVars, clockVars>>

go_to_main_menu == ShowScreen("AppStateManager.go_to_main_menu", MAIN_MENU)

abort_to_main_menu ==
    /\ last' = Call("AppStateManager.abort_to_main_menu", "none", 0, 0,
                    FALSE)
    /\ session' = None
    /\ current_screen' = MAIN_MENU
    /\ UNCHANGED <<last_rules, configVars, twin, construction, boardVars,
                   sessionVars, timerVars, clockVars>>

show_settings == ShowScreen("AppStateManager.show_settings", SETTINGS)

show_campaign_menu ==
    ShowScreen("AppStateManager.show_campaign_menu", CAMPAIGN_MENU)

\* GameSession(settings, rules) for settings with m mines: a new timer, a
\* new Board, NOT_STARTED, not paused, m flags
NewSession(name, m) ==
    /\ last' = Call(name, "none", 0, 0, FALSE)
    /\ mine_count' = m
    /\ SetTimer(TimerReset)
    /\ tiles' = ResetTiles
    /\ mines_generated' = FALSE
    /\ status' = NOT_STARTED
    /\ is_paused' = FALSE
    /\ remaining_flags' = m
    /\ time_running' = 0
    /\ session' = TheSession
    /\ current_screen' = GAME
    /\ UNCHANGED <<safe_zone_radius, use_question_marks, twin,
                   construction, now>>

\* start_game(settings, rules), settings.mine_count being m
start_game(m) ==
    /\ NewSession("AppStateManager.start_game", m)
    /\ last_rules' = TheRules

\* restart_game(): session_settings is never None
restart_game ==
    IF last_rules = None
    THEN AppReturns("AppStateManager.restart_game")
    ELSE /\ NewSession("AppStateManager.restart_game", mine_count)
         /\ UNCHANGED last_rules

pause_gameMutAnyStatus ==
    IF session = None
    THEN AppReturns("AppStateManager.pause_game")
    ELSE /\ last' = Call("AppStateManager.pause_game", "none", 0, 0, FALSE)
         /\ is_paused' = Paused.is_paused
         /\ SetTimer(Paused.timer)
         /\ current_screen' = PAUSE_MENU
         /\ UNCHANGED <<session, last_rules, configVars, twin, construction,
                        boardVars, status, remaining_flags, clockVars>>

pause_game ==
    IF session = None \/ status # IN_PROGRESS
    THEN AppReturns("AppStateManager.pause_game")
    ELSE /\ last' = Call("AppStateManager.pause_game", "none", 0, 0, FALSE)
         /\ is_paused' = Paused.is_paused
         /\ SetTimer(Paused.timer)
         /\ current_screen' = PAUSE_MENU
         /\ UNCHANGED <<session, last_rules, configVars, twin, construction,
                        boardVars, status, remaining_flags, clockVars>>

resume_game ==
    IF session = None
    THEN AppReturns("AppStateManager.resume_game")
    ELSE /\ last' = Call("AppStateManager.resume_game", "none", 0, 0, FALSE)
         /\ IF status = IN_PROGRESS
            THEN is_paused' = Resumed.is_paused /\ SetTimer(Resumed.timer)
            ELSE UNCHANGED <<is_paused, timerVars>>
         /\ current_screen' = GAME
         /\ UNCHANGED <<session, last_rules, configVars, twin, construction,
                        boardVars, status, remaining_flags, clockVars>>

show_game_over ==
    IF session = None \/ status \notin {WON, LOST}
    THEN AppReturns("AppStateManager.show_game_over")
    ELSE ShowScreen("AppStateManager.show_game_over", GAME_OVER)

---------------------------------------------------------------------------
(* Calls made on the GameTimer itself *)

TimerCall(name, tm) ==
    /\ SetTimer(tm)
    /\ last' = Call(name, "none", 0, 0, FALSE)
    /\ UNCHANGED <<boardVars, frameVars, sessionVars, clockVars>>

\* timer.start()
GameTimerStart == TimerCall("GameTimer.start", TimerStart(Timer))

\* timer.pause()
GameTimerPause == TimerCall("GameTimer.pause", TimerPause(Timer))

\* timer.resume()
GameTimerResume == TimerCall("GameTimer.resume", TimerResume(Timer))

\* timer.reset()
GameTimerReset ==
    /\ SetTimer(TimerReset)
    /\ time_running' = 0
    /\ last' = Call("GameTimer.reset", "none", 0, 0, FALSE)
    /\ UNCHANGED <<boardVars, frameVars, sessionVars, now>>

\* timer.get_elapsed_seconds()
GameTimerGetElapsedSeconds ==
    /\ last' = [Call("GameTimer.get_elapsed_seconds", "none", 0, 0, FALSE)
                    EXCEPT !.elapsed = get_elapsed_seconds(Timer)]
    /\ SetTimer(TimerAfterRead(Timer))
    /\ UNCHANGED <<boardVars, frameVars, sessionVars, clockVars>>

---------------------------------------------------------------------------
(* The clock *)

\* time.monotonic() moves on between two calls, by one unit of the clock
TickUpTo(max) ==
    /\ now < max
    /\ now' = now + 1
    /\ time_running' = IF running THEN time_running + 1 ELSE time_running
    /\ UNCHANGED <<boardVars, frameVars, sessionVars, timerVars, last>>

Tick == TickUpTo(MaxClock)

---------------------------------------------------------------------------
(* Specifications *)

\* GameSession(settings, rules): a Board of the smallest size, a stopped
\* timer, NOT_STARTED
Init ==
    /\ mine_count \in MIN_MINES .. MaxMines
    /\ safe_zone_radius \in 0 .. MaxRadius
    /\ use_question_marks \in BOOLEAN
    /\ tiles = ResetTiles
    /\ mines_generated = FALSE
    /\ status = NOT_STARTED
    /\ is_paused = FALSE
    /\ remaining_flags = mine_count
    /\ start_time = NoTime
    /\ accumulated_time = 0
    /\ running = FALSE
    /\ now = 0
    /\ time_running = 0
    /\ twin = NewBoard
    /\ construction = NoConstruction
    /\ current_screen = MAIN_MENU
    /\ session = None
    /\ last_rules = None
    /\ last = Call("init", "none", 0, 0, FALSE)

\* Placement: place_mines on a new board, for every mine count, radius,
\* seed cell and outcome of the shuffle
NextPlace ==
    \E c \in Cells : ~mines_generated /\ BoardPlaceMines(c[1], c[2])

InitPlace == Init /\ use_question_marks = DEFAULT_USE_QUESTION_MARKS

SpecPlace == InitPlace /\ [][NextPlace]_vars

\* First reveal: the call that places the mines, made on the Board or
\* through the session, for every radius, cell and outcome of the shuffle
NextFirst ==
    \/ \E c \in Cells : ~mines_generated /\ BoardOpenTile(c[1], c[2], TRUE)
    \/ \E c \in Cells : ~mines_generated /\ SessionOpenTile(c[1], c[2])

InitFirst ==
    Init /\ mine_count = MIN_MINES
         /\ use_question_marks = DEFAULT_USE_QUESTION_MARKS

SpecFirst == InitFirst /\ [][NextFirst]_vars

\* Play on the Board with the default radius: the cells that are marked,
\* the cells that are opened, and the cell given to place_mines
MarkCells == {<<0, 1>>, <<1, 1>>}
OpenCells == {<<0, 0>>, <<0, 1>>, <<4, 4>>}
UnsafeOpenCells == {<<0, 1>>}
PlaceCells == {<<4, 4>>}

Next ==
    \/ \E c \in PlaceCells : ~mines_generated /\ BoardPlaceMines(c[1], c[2])
    \/ \E c \in OpenCells : BoardOpenTile(c[1], c[2], TRUE)
    \/ \E c \in UnsafeOpenCells : BoardOpenTile(c[1], c[2], FALSE)
    \/ \E c \in MarkCells : BoardToggleFlag(c[1], c[2])

InitPlay ==
    Init /\ mine_count = MIN_MINES
         /\ safe_zone_radius = DEFAULT_SAFE_ZONE_RADIUS

Spec == InitPlay /\ [][Next]_vars

\* A session: reveals and marks on a few cells, pause, resume, restart and
\* the clock. The first reveal of a game is made at (0, 0); after it a mine
\* at (1, 2) leaves (0, 2) Hidden: the game goes on, and is lost at (1, 2)
\* or won at (0, 2)
FirstOpenCell == <<0, 0>>
SessionOpenCells == {<<0, 0>>, <<0, 2>>, <<1, 2>>}
SessionMarkCells == {<<0, 2>>, <<1, 2>>}

NextSession ==
    \/ \E c \in SessionOpenCells :
           /\ mines_generated \/ c = FirstOpenCell
           /\ SessionOpenTile(c[1], c[2])
    \/ \E c \in SessionMarkCells : SessionToggleFlag(c[1], c[2])
    \/ SessionPause
    \/ SessionResume
    \/ SessionTogglePause
    \/ SessionRestart
    \/ Tick

InitSession ==
    Init /\ mine_count = MIN_MINES
         /\ safe_zone_radius = DEFAULT_SAFE_ZONE_RADIUS
         /\ use_question_marks = DEFAULT_USE_QUESTION_MARKS

SpecSession == InitSession /\ [][NextSession]_vars

\* The timer alone: its five methods, and the read through the session, at
\* any instant of the clock
NextTimer ==
    \/ GameTimerStart
    \/ GameTimerPause
    \/ GameTimerResume
    \/ GameTimerReset
    \/ GameTimerGetElapsedSeconds
    \/ SessionGetElapsedSeconds
    \/ TickUpTo(MaxTimerClock)

SpecTimer == InitSession /\ [][NextTimer]_vars

\* A session whose rules may return any result
NextAnyRules ==
    \/ \E r \in AnyResults : SessionOpenTileAnyRules(0, 0, r)
    \/ SessionPause
    \/ SessionResume
    \/ SessionRestart
    \/ Tick

SpecAnyRules == InitSession /\ [][NextAnyRules]_vars

\* Two boards: the seeds of the generators, and the cells revealed and
\* marked
MaxSeed == 3
Seeds == 1 .. MaxSeed
TwinOpenCells == {<<2, 2>>, <<0, 0>>, <<4, 1>>}
TwinMarkCells == {<<0, 0>>, <<2, 3>>}

NextTwin ==
    \/ \E c \in TwinOpenCells, seed \in Seeds :
           TwinOpenTile(c[1], c[2], seed)
    \/ \E c \in TwinMarkCells : TwinToggleFlag(c[1], c[2])

InitTwin ==
    Init /\ safe_zone_radius <= DEFAULT_SAFE_ZONE_RADIUS
         /\ use_question_marks = DEFAULT_USE_QUESTION_MARKS

SpecTwin == InitTwin /\ [][NextTwin]_vars

\* Construction: one call Board(...) with arguments on both sides of every
\* bound
Sides == (MIN_BOARD_WIDTH - 2) .. MaxSide
MineCounts == (MIN_MINES - 2) .. (MaxSide * MaxSide + 1)
Radii == (0 - 1) .. MaxRadius

NextConstruct ==
    \E w \in Sides, h \in Sides, m \in MineCounts, r \in Radii,
       uqm \in BOOLEAN :
        ~construction.called /\ BoardConstruct(w, h, m, r, uqm)

InitConstruct ==
    /\ Init
    /\ mine_count = MIN_MINES
    /\ safe_zone_radius = DEFAULT_SAFE_ZONE_RADIUS
    /\ use_question_marks = DEFAULT_USE_QUESTION_MARKS

SpecConstruct == InitConstruct /\ [][NextConstruct]_vars

\* Coordinates: every method of the Board that takes a cell, called inside
\* the board and one step outside each of its four edges
OutsideCells == {<<0 - 1, 0>>, <<width, 0>>, <<0, 0 - 1>>, <<0, height>>}
InsideOpenCells == {<<0, 0>>}
InsideMarkCells == {<<1, 1>>}
InsideGetCells == {<<4, 4>>}

NextCoordinates ==
    \/ \E c \in OutsideCells \cup InsideOpenCells :
           BoardOpenTile(c[1], c[2], TRUE)
    \/ \E c \in OutsideCells : BoardOpenTile(c[1], c[2], FALSE)
    \/ \E c \in OutsideCells \cup InsideMarkCells :
           BoardToggleFlag(c[1], c[2])
    \/ \E c \in OutsideCells \cup InsideOpenCells :
           /\ ~mines_generated \/ c \in OutsideCells
           /\ BoardPlaceMines(c[1], c[2])
    \/ \E c \in OutsideCells \cup InsideGetCells : BoardGetTile(c[1], c[2])
    \/ \E c \in OutsideCells \cup InsideGetCells :
           BoardGetTileState(c[1], c[2])
    \/ \E c \in OutsideCells \cup InsideGetCells :
           BoardGetAdjacentMines(c[1], c[2])
    \/ \E c \in OutsideCells \cup InsideGetCells : BoardIsMine(c[1], c[2])

SpecCoordinates == InitPlay /\ [][NextCoordinates]_vars

\* A session whose reveals can raise: cells outside the board, and the
\* centre, where a radius of 2 leaves no cell for the mines
RaisingOpenCells == {<<0, 0>>, <<2, 2>>, <<0 - 1, 0>>, <<0, height>>}
RaisingMarkCells == {<<1, 1>>, <<4, 4>>}

NextRaising ==
    \/ \E c \in RaisingOpenCells : SessionOpenTile(c[1], c[2])
    \/ \E c \in RaisingMarkCells : SessionToggleFlag(c[1], c[2])
    \/ SessionRestart

SpecRaising == InitFirst /\ [][NextRaising]_vars

\* The application: the nine methods of AppStateManager, and reveals and
\* marks made on the session it holds
AppMarkCells == {<<0, 2>>}

NextApp ==
    \/ go_to_main_menu
    \/ abort_to_main_menu
    \/ show_settings
    \/ show_campaign_menu
    \/ \E m \in MIN_MINES .. MaxMines : start_game(m)
    \/ restart_game
    \/ pause_game
    \/ resume_game
    \/ show_game_over
    \/ \E c \in SessionOpenCells :
           /\ session # None
           /\ mines_generated \/ c = FirstOpenCell
           /\ SessionOpenTile(c[1], c[2])
    \/ \E c \in AppMarkCells :
           session # None /\ SessionToggleFlag(c[1], c[2])

SpecApp == InitSession /\ [][NextApp]_vars

---------------------------------------------------------------------------
(* Properties *)

Mines == {c \in Cells : tiles[c].is_mine}

\* the Chebyshev distance of two cells
Chebyshev(a, b) == Max(Abs(a[1] - b[1]), Abs(a[2] - b[2]))

\* the cell the last call was made on
LastCell == <<last.x, last.y>>

\* the number of mines among the cells that touch c, c itself left out
MineNeighbours(c) ==
    Cardinality({n \in Mines : n # c /\ Chebyshev(n, c) <= 1})

\* C1: when place_mines(seed) has succeeded, no tile within Chebyshev
\* distance safe_zone_radius of the seed is a mine.
C1_SafeZoneHasNoMine ==
    last.placed =>
        \A c \in Cells :
            Chebyshev(c, LastCell) <= safe_zone_radius => ~tiles[c].is_mine

C1_Witness ==
    /\ last.placed
    /\ safe_zone_radius = 1
    /\ LastCell = <<0, 2>>
    /\ \E c \in Mines : Chebyshev(c, LastCell) = 2

\* C2: a first reveal that places the mines never returns exploded, and a
\* session whose reveal placed the mines is not LOST after it.
C2_FirstRevealIsSafe ==
    (last.op = "open_tile" /\ last.placed) =>
        /\ ~last.exploded
        /\ tiles[LastCell].state = REVEALED
        /\ ~tiles[LastCell].is_mine
        /\ last.call = "GameSession.open_tile" => status # LOST

C2_Witness ==
    /\ last.call = "GameSession.open_tile"
    /\ last.placed
    /\ safe_zone_radius = 0
    /\ status = IN_PROGRESS
    /\ \E c \in Mines : Chebyshev(c, LastCell) = 1

\* C3: when place_mines has succeeded, exactly mine_count tiles are mines
\* and each of them is farther than safe_zone_radius from the seed.
C3_ExactMineCount ==
    last.placed =>
        /\ Cardinality(Mines) = mine_count
        /\ \A c \in Mines : Chebyshev(c, LastCell) > safe_zone_radius

C3_Witness ==
    /\ last.placed
    /\ mine_count = 2
    /\ safe_zone_radius = 2
    /\ Cardinality(Mines) = 2

C5_ContentMatchesMine ==
    \A c \in Cells :
        /\ tiles[c].content = MINE <=> tiles[c].is_mine
        /\ (mines_generated /\ ~tiles[c].is_mine) =>
               /\ tiles[c].content = EMPTY <=> tiles[c].adjacent_mines = 0
               /\ tiles[c].content = NUMBER <=> tiles[c].adjacent_mines # 0

C5_Witness ==
    /\ mines_generated
    /\ \E c \in Cells : tiles[c].state = FLAGGED /\ tiles[c].content = NUMBER
    /\ \E c \in Cells : tiles[c].state = REVEALED /\ tiles[c].content = EMPTY
    /\ \E c \in Mines : tiles[c].state = REVEALED

\* a step that is a call of open_tile that returned
OpenStep == last'.op = "open_tile" /\ last'.raised = NoError

\* the cell a step calls
StepCell == <<last'.x, last'.y>>

\* the state of the tiles when the propagation of a step starts: the
\* placement of a first reveal has reset every tile to HIDDEN
StateBeforeFlood ==
    [c \in Cells |-> IF last'.placed THEN HIDDEN ELSE tiles[c].state]

IsZero(t, c) == ~t[c].is_mine /\ t[c].adjacent_mines = 0

\* the cells of region and the zero tiles that touch one, repeated until
\* nothing is added: the maximal 8-connected region of zero tiles
RECURSIVE ZeroRegion(_, _)
ZeroRegion(t, region) ==
    LET more == {n \in Cells \ region :
                    IsZero(t, n) /\ \E m \in region : Chebyshev(m, n) = 1}
    IN  IF more = {} THEN region ELSE ZeroRegion(t, region \cup more)

\* the numbered tiles that touch a cell of region
NumberedBorder(t, region) ==
    {n \in Cells \ region :
        /\ ~t[n].is_mine /\ t[n].adjacent_mines # 0
        /\ \E m \in region : Chebyshev(m, n) = 1}

\* the cells of reached and the cells, HIDDEN in before, that touch a zero
\* tile of reached, repeated until nothing is added
RECURSIVE HiddenReach(_, _, _)
HiddenReach(t, before, reached) ==
    LET more == {n \in Cells \ reached :
                    /\ before[n] = HIDDEN
                    /\ \E m \in reached :
                           IsZero(t, m) /\ Chebyshev(m, n) = 1}
    IN  IF more = {} THEN reached ELSE HiddenReach(t, before, reached \cup more)

C6_OriginalStep ==
    (/\ OpenStep
     /\ tiles[StepCell].state = HIDDEN
     /\ IsZero(tiles, StepCell)
     /\ IsZero(tiles', StepCell)) =>
        \E region \in {ZeroRegion(tiles', {StepCell})} :
            \E claimed \in {{c \in region \cup NumberedBorder(tiles', region) :
                                tiles[c].state \notin {FLAGGED, QUESTION}}} :
                \A c \in Cells :
                    tiles'[c].state =
                        IF c \in claimed THEN REVEALED ELSE tiles[c].state

\* C6 as stated: a reveal of a Hidden zero tile leaves Revealed the maximal
\* 8-connected region of zero tiles around it and the numbered tiles that
\* touch the region, less the tiles marked before the call, and changes no
\* other tile.
C6_Original == [][C6_OriginalStep]_vars

C6_FloodStep ==
    (/\ OpenStep
     /\ StateBeforeFlood[StepCell] = HIDDEN
     /\ IsZero(tiles', StepCell)) =>
        \E before \in {StateBeforeFlood} :
            \E reached \in {HiddenReach(tiles', before, {StepCell})} :
                \A c \in Cells :
                    tiles'[c].state =
                        IF c \in reached THEN REVEALED ELSE before[c]

\* C6: a reveal of a zero tile that is Hidden when the propagation starts
\* leaves newly Revealed exactly the cells reached from it by going from a
\* zero tile already reached to a neighbour that was Hidden at that moment;
\* every other tile keeps the state it had at that moment.
C6_FloodRevealsHiddenReach == [][C6_FloodStep]_vars

\* a Hidden zero tile of the region of the opened cell was left Hidden
\* behind a mark
C6_Witness ==
    /\ last.op = "open_tile" /\ last.flood /\ ~last.placed
    /\ Len(last.changed) > 1
    /\ \E c \in ZeroRegion(tiles, {LastCell}) : tiles[c].state = HIDDEN

C7_FloodStep ==
    (OpenStep /\ last'.flood) =>
        \A c \in Cells :
            /\ StateBeforeFlood[c] \in {FLAGGED, QUESTION} =>
                   tiles'[c].state = StateBeforeFlood[c]
            /\ (tiles'[c].is_mine /\ tiles'[c].state = REVEALED) =>
                   StateBeforeFlood[c] = REVEALED

\* C7: the propagation reveals no mine tile and leaves every tile that is
\* Flagged or Question when it starts in that state, the start cell and
\* the tiles of the zero region included.
C7_FloodKeepsMarksAndMines == [][C7_FloodStep]_vars

\* the propagation revealed a zero tile that touches a marked tile
C7_Witness ==
    /\ last.op = "open_tile" /\ last.flood
    /\ \E i \in 1 .. Len(last.changed) :
           /\ IsZero(tiles, last.changed[i])
           /\ \E c \in Cells :
                  /\ Chebyshev(c, last.changed[i]) = 1
                  /\ tiles[c].state \in {FLAGGED, QUESTION}
                  /\ IsZero(tiles, c)

\* a step that is a call of toggle_flag that returned
ToggleStep == last'.op = "toggle_flag" /\ last'.raised = NoError

\* the other tiles, and the mine and the count of the called one, are as
\* before the step
OnlyStateOfStepCellChanges ==
    tiles' = [tiles EXCEPT ![StepCell].state = tiles'[StepCell].state]

C8_ToggleStep ==
    (ToggleStep /\ tiles[StepCell].state # REVEALED) =>
        /\ OnlyStateOfStepCellChanges
        /\ tiles[StepCell].state = HIDDEN =>
               tiles'[StepCell].state = FLAGGED /\ last'.delta = 1
        /\ tiles[StepCell].state = FLAGGED =>
               /\ tiles'[StepCell].state =
                      IF use_question_marks THEN QUESTION ELSE HIDDEN
               /\ last'.delta = -1
        /\ tiles[StepCell].state = QUESTION =>
               tiles'[StepCell].state = HIDDEN /\ last'.delta = 0

\* after a call on a Hidden tile, two more calls (question marks enabled)
\* or one more (disabled) on that tile give back the tiles the first call
\* started from, and the deltas of the calls sum to 0
C8_CycleStep ==
    (ToggleStep /\ tiles[StepCell].state = HIDDEN) =>
        \E two \in {toggle_flag(tiles', last'.x, last'.y)} :
            \E three \in {toggle_flag(two.tiles, last'.x, last'.y)} :
                IF use_question_marks
                THEN /\ two.tiles # tiles
                     /\ three.tiles = tiles
                     /\ last'.delta + two.delta + three.delta = 0
                ELSE /\ two.tiles = tiles
                     /\ last'.delta + two.delta = 0

\* C8: toggle_flag on a tile that is not Revealed takes Hidden to Flagged
\* and returns +1, Flagged to Question (question marks enabled) or to
\* Hidden (disabled) and returns -1, Question to Hidden and returns 0; from
\* Hidden, three calls (enabled) or two (disabled) on one tile bring it
\* back to Hidden and their deltas sum to 0.
C8_MarkCycle == [][C8_ToggleStep /\ C8_CycleStep]_vars

\* a call took a Question tile back to Hidden, closing a cycle of three
C8_Witness ==
    /\ use_question_marks
    /\ last.op = "toggle_flag" /\ last.raised = NoError
    /\ last.delta = 0
    /\ tiles[LastCell].state = HIDDEN

C9_RevealedToggleStep ==
    (ToggleStep /\ tiles[StepCell].state = REVEALED) =>
        /\ last'.delta = 0
        /\ tiles' = tiles
        /\ mines_generated' = mines_generated

\* C9: toggle_flag on a Revealed tile returns 0 and leaves every tile as
\* it was, so that any number of such calls does.
C9_RevealedTileIsNotToggled == [][C9_RevealedToggleStep]_vars

\* toggle_flag was called on a Revealed tile
C9_Witness ==
    /\ last.op = "toggle_flag" /\ last.raised = NoError
    /\ tiles[LastCell].state = REVEALED

AllSafeTilesRevealed ==
    \A c \in Cells : ~tiles[c].is_mine => tiles[c].state = REVEALED

\* C10: is_win() is true exactly when every tile that is not a mine is
\* Revealed, whatever the state of the mine tiles; and an open_tile that
\* does not explode returns as "won" the value of is_win() on the tiles it
\* leaves.
C10_WinIsAllSafeRevealed ==
    /\ is_win(tiles) <=> AllSafeTilesRevealed
    /\ (last.op = "open_tile" /\ last.raised = NoError /\ ~last.exploded) =>
           last.won = AllSafeTilesRevealed

\* an open_tile returned won = true while a mine is still Flagged
C10_Witness ==
    /\ last.op = "open_tile" /\ last.raised = NoError
    /\ ~last.exploded /\ last.won
    /\ Len(last.changed) > 0
    /\ \E c \in Cells : tiles[c].is_mine /\ tiles[c].state = FLAGGED

\* a step that is the call named name: the clock moves between calls only
CallStep(name) == last'.call = name /\ now' = now

\* the tiles that carry a flag
FlaggedCells == {c \in Cells : tiles[c].state = FLAGGED}

\* C11: after any sequence of reveals, marks, pauses, resumes and restarts
\* of a session, 0 <= remaining_flags <= mine_count.
C11_RemainingFlagsInRange ==
    0 <= remaining_flags /\ remaining_flags <= mine_count

\* a flag was set when no flag remained: the counter was held at 0
C11_Witness ==
    /\ last.call = "GameSession.toggle_flag" /\ last.delta = 1
    /\ remaining_flags = 0
    /\ Cardinality(FlaggedCells) > mine_count

C12_NotStartedStep ==
    (status = NOT_STARTED /\ ~is_paused) =>
        IF CallStep("GameSession.open_tile")
        THEN /\ ~last'.returned_none
             /\ status' \in {IN_PROGRESS, WON, LOST}
             /\ status' = IN_PROGRESS =>
                    /\ running' /\ start_time' = now
                    /\ accumulated_time' = accumulated_time
             /\ status' \in {WON, LOST} => ~running'
        ELSE /\ status' = NOT_STARTED
             /\ ~running'
             /\ UNCHANGED timerVars

\* C12: in a session that is NOT_STARTED and not paused, a call of
\* open_tile leaves the status IN_PROGRESS, or WON or LOST, and IN_PROGRESS
\* with the timer running from the instant of the call; any other step
\* (toggle_flag, pause, resume, a read, the clock) leaves the status
\* NOT_STARTED and the timer stopped.
C12_FirstRevealStarts == [][C12_NotStartedStep]_vars

\* the first open_tile of a game left it IN_PROGRESS with the timer running
C12_Witness ==
    /\ last.call = "GameSession.open_tile" /\ last.placed
    /\ status = IN_PROGRESS
    /\ running /\ start_time = last.at

\* what session.get_elapsed_seconds() returns in a state
Elapsed == get_elapsed_seconds(Timer)

C13_LostStep ==
    /\ (CallStep("GameSession.open_tile") /\ last'.exploded) =>
           /\ status' = LOST
           /\ ~running'
           /\ Elapsed' = Elapsed
    /\ status = LOST =>
           \/ CallStep("GameSession.restart")
           \/ status' = LOST /\ ~running' /\ Elapsed' = Elapsed

\* C13: an open_tile of the session that returns exploded = true leaves the
\* status LOST and the timer stopped, with the elapsed time of that
\* instant; from then on every step but restart, the clock's included,
\* leaves the status LOST and the elapsed time as it is.
C13_LostFreezesTime == [][C13_LostStep]_vars

\* a game that had run for some time was lost, and the clock has moved
\* since
C13_Witness ==
    /\ status = LOST
    /\ last.call = "GameSession.open_tile" /\ last.exploded
    /\ accumulated_time > 0
    /\ now > last.at

C14_ResultStep ==
    (CallStep("GameSession.open_tile") /\ ~last'.returned_none) =>
        /\ last'.exploded =>
               status' = LOST /\ ~running' /\ Elapsed' = Elapsed
        /\ (~last'.exploded /\ last'.won) =>
               status' = WON /\ ~running' /\ Elapsed' = Elapsed

\* C14: an open_tile of the session whose result has exploded = false and
\* won = true leaves the status WON and the timer stopped; one whose
\* result has exploded = true leaves the status LOST, whatever won is.
C14_WonUnlessExploded == [][C14_ResultStep]_vars

\* a result with exploded and won both true left the status LOST
C14_Witness ==
    /\ last.call = "GameSession.open_tile" /\ ~last.returned_none
    /\ last.exploded /\ last.won
    /\ status = LOST /\ ~running

C15_RefusedStep ==
    (/\ is_paused \/ status \in {WON, LOST}
     /\ \/ CallStep("GameSession.open_tile")
        \/ CallStep("GameSession.toggle_flag")) =>
        /\ last'.returned_none
        /\ UNCHANGED <<tiles, mines_generated, status, is_paused,
                       remaining_flags, timerVars>>

\* C15: while the session is paused, or WON or LOST, open_tile and
\* toggle_flag of the session return None and leave the status, the pause,
\* remaining_flags, the timer and every tile as they are.
C15_RefusedCallChangesNothing == [][C15_RefusedStep]_vars

\* a call was refused in a paused game
C15_Witness ==
    /\ last.call \in {"GameSession.open_tile", "GameSession.toggle_flag"}
    /\ last.returned_none
    /\ is_paused /\ status = IN_PROGRESS

C16_RestartStep ==
    CallStep("GameSession.restart") =>
        /\ \A c \in Cells :
               tiles'[c] = [is_mine |-> FALSE, state |-> HIDDEN,
                            adjacent_mines |-> 0, content |-> EMPTY]
        /\ ~mines_generated'
        /\ start_time' = NoTime /\ accumulated_time' = 0 /\ ~running'
        /\ Elapsed' = 0
        /\ status' = NOT_STARTED
        /\ ~is_paused'
        /\ remaining_flags' = mine_count
        /\ UNCHANGED configVars

\* C16: restart() in any state leaves a board with the same settings whose
\* tiles are all Hidden and without mines and whose mines are not placed,
\* the timer reset and stopped, the status NOT_STARTED, the pause off and
\* remaining_flags = mine_count.
C16_RestartIsFresh == [][C16_RestartStep]_vars

\* restart() was called on a lost game that had run for some time
C16_Witness ==
    /\ last.call = "GameSession.restart"
    /\ last.found = LOST /\ last.at > 0
    /\ status = NOT_STARTED /\ ~mines_generated

\* everything a call of the session may write is left as it is
SessionUnchanged ==
    UNCHANGED <<tiles, mines_generated, status, is_paused, remaining_flags,
                timerVars>>

C17_PauseStep ==
    CallStep("GameSession.pause") =>
        IF status = IN_PROGRESS /\ ~is_paused
        THEN /\ status' = IN_PROGRESS
             /\ is_paused'
             /\ ~running'
             /\ Elapsed' = Elapsed
             /\ UNCHANGED <<tiles, mines_generated, remaining_flags>>
        ELSE SessionUnchanged

C17_ResumeStep ==
    CallStep("GameSession.resume") =>
        IF ~is_paused
        THEN SessionUnchanged
        ELSE status = IN_PROGRESS =>
                 /\ status' = IN_PROGRESS
                 /\ ~is_paused'
                 /\ running' /\ start_time' = now
                 /\ Elapsed' = Elapsed
                 /\ UNCHANGED <<tiles, mines_generated, remaining_flags>>

\* C17: pause() in a game that is IN_PROGRESS and not paused keeps the
\* status, sets the pause and stops the timer at the elapsed time it has;
\* pause() in any other status, or when paused, changes nothing. resume()
\* in a paused game that is IN_PROGRESS keeps the status, clears the pause
\* and lets the timer run on from the elapsed time it has; resume() when
\* not paused changes nothing.
C17_PauseAndResume == [][C17_PauseStep /\ C17_ResumeStep]_vars

\* a game was paused after some time, and resumed at a later instant
C17_Witness ==
    /\ last.call = "GameSession.resume"
    /\ status = IN_PROGRESS /\ ~is_paused /\ running
    /\ accumulated_time > 0
    /\ start_time > accumulated_time

\* the whole seconds in the clock time spent running since the last reset
RunningSeconds == time_running \div TicksPerSecond

ElapsedReads ==
    {"GameTimer.get_elapsed_seconds", "GameSession.get_elapsed_seconds"}

\* C18: whatever start, pause and resume calls were made, and when, since
\* the last reset, the elapsed time is the floor of the total length of
\* the intervals in which the timer was running, in seconds; time spent
\* stopped does not count.
C18_ElapsedIsRunningTime ==
    /\ Elapsed = RunningSeconds
    /\ (last.call \in ElapsedReads /\ last.at = now) =>
           last.elapsed = RunningSeconds

\* the timer ran for 5 s, was started again at 8 s, and a read at 10 s
\* returned 7
C18_Witness ==
    /\ last.call = "GameTimer.get_elapsed_seconds"
    /\ last.at = 10 * TicksPerSecond /\ now = last.at
    /\ accumulated_time = 5 * TicksPerSecond
    /\ running /\ start_time = 8 * TicksPerSecond
    /\ last.elapsed = 7

C19_ReadStep ==
    (\E name \in ElapsedReads : CallStep(name)) =>
        /\ UNCHANGED timerVars
        /\ UNCHANGED <<boardVars, configVars, sessionVars, clockVars>>
        /\ last'.elapsed = Elapsed
        /\ Elapsed' = Elapsed

\* C19: a read of the elapsed time, on the timer or through the session,
\* leaves _accumulated_time, _start_time and _running as they are in every
\* state of the timer, so that reads change no later result.
C19_ReadHasNoEffect == [][C19_ReadStep]_vars

\* the elapsed time was read while the timer was running, after a pause
C19_Witness ==
    /\ last.call \in ElapsedReads /\ last.at = now
    /\ running /\ now > start_time
    /\ accumulated_time > 0

C20_TimerStep ==
    /\ (CallStep("GameTimer.start") /\ running) => UNCHANGED timerVars
    /\ (CallStep("GameTimer.pause") /\ ~running) => UNCHANGED timerVars
    /\ (CallStep("GameTimer.resume") /\ running) => UNCHANGED timerVars
    /\ (CallStep("GameTimer.start") \/ CallStep("GameTimer.resume")) =>
           accumulated_time' = accumulated_time

\* C20: start() on a running timer changes nothing, the anchor included;
\* pause() on a stopped timer changes nothing; resume() on a running timer
\* changes nothing; start() and resume() never change _accumulated_time.
C20_TimerIdempotence == [][C20_TimerStep]_vars

\* start() was called on a timer that had been running since an earlier
\* instant, after time had been accumulated
C20_Witness ==
    /\ last.call = "GameTimer.start" /\ last.at = now
    /\ running /\ start_time < last.at
    /\ accumulated_time > 0

\* the result that the last call of open_tile returned
LastResult == [changed |-> last.changed, exploded |-> last.exploded,
               won |-> last.won, flood |-> last.flood]

LastSafeTile(t, c) ==
    /\ ~t[c].is_mine /\ t[c].state # REVEALED
    /\ \A d \in Cells \ {c} : ~t[d].is_mine => t[d].state = REVEALED

C22_LastTileStep ==
    \A c \in Cells :
        LastSafeTile(tiles, c) =>
            /\ ~is_win(tiles)
            /\ is_win(tiles') <=> tiles'[c].state = REVEALED
            /\ (ToggleStep /\ StepCell = c) =>
                   ~is_win(tiles') /\ LastSafeTile(tiles', c)
            /\ OpenStep => last'.won = (tiles'[c].state = REVEALED)

\* C22: when one tile without a mine, Flagged or marked otherwise, is the
\* only one that is not Revealed, is_win() is false; it stays false
\* through every toggle_flag on that tile, and becomes true in the call
\* that leaves the tile Revealed and in no other.
C22_WinWaitsForLastTile == [][C22_LastTileStep]_vars

\* the arguments of the last call Board(...)
BuiltWidth == construction.width
BuiltHeight == construction.height
BuiltMines == construction.mine_count
BuiltRadius == construction.safe_zone_radius

\* the conditions under which a Board is to result
ValidConfiguration ==
    /\ BuiltWidth >= 5 /\ BuiltHeight >= 5
    /\ BuiltMines >= 1
    /\ BuiltMines < BuiltWidth * BuiltHeight
    /\ BuiltMines <= Max(1, (85 * BuiltWidth * BuiltHeight) \div 100)
    /\ BuiltRadius >= 0

\* C23: a call Board(...) returns a Board exactly when width >= 5,
\* height >= 5, 1 <= mine_count < width * height, mine_count <=
\* max(1, floor(0.85 * width * height)) and safe_zone_radius >= 0; every
\* other call raises BoardConfigurationError, assigns no attribute and
\* yields no object.  The Board returned has the arguments as its settings,
\* width * height new tiles and no mines generated.
C23_ConstructionValidates ==
    construction.called =>
        /\ construction.raised = NoError <=> ValidConfiguration
        /\ construction.raised # NoError =>
               /\ construction.raised = BoardConfigurationError
               /\ construction.assigned = {}
               /\ construction.objects = {}
        /\ construction.raised = NoError =>
               \E b \in construction.objects :
                   /\ construction.objects = {b}
                   /\ b.width = BuiltWidth /\ b.height = BuiltHeight
                   /\ b.mine_count = BuiltMines
                   /\ b.safe_zone_radius = BuiltRadius
                   /\ DOMAIN b.tiles =
                          (0 .. BuiltWidth - 1) \X (0 .. BuiltHeight - 1)
                   /\ \A c \in DOMAIN b.tiles : b.tiles[c] = NewTile
                   /\ ~b.mines_generated

\* a board larger than the smallest was built with the most mines its
\* size admits, fewer than by the bound on the cells alone
C23_Witness ==
    /\ construction.called /\ construction.raised = NoError
    /\ BuiltWidth * BuiltHeight > 25
    /\ BuiltMines = (85 * BuiltWidth * BuiltHeight) \div 100
    /\ BuiltMines + 1 < BuiltWidth * BuiltHeight

\* a call was refused for its mine density alone
C23_WitnessRefused ==
    /\ construction.called /\ construction.raised = BoardConfigurationError
    /\ BuiltWidth >= 5 /\ BuiltHeight >= 5 /\ BuiltRadius >= 0
    /\ BuiltMines >= 1 /\ BuiltMines < BuiltWidth * BuiltHeight

\* the cells farther from the cell of the step than safe_zone_radius
EligibleCells ==
    {c \in Cells : Chebyshev(c, StepCell) > safe_zone_radius}

C24_PlaceStep ==
    (last'.op = "place_mines" /\ in_bounds(last'.x, last'.y)) =>
        /\ last'.raised = BoardConfigurationError
               <=> Cardinality(EligibleCells) < mine_count
        /\ last'.raised = BoardConfigurationError =>
               /\ \A c \in Cells : ~tiles'[c].is_mine
               /\ ~mines_generated /\ ~mines_generated'
        /\ last'.raised # BoardConfigurationError =>
               last'.raised = NoError /\ mines_generated'

\* C24: place_mines(x, y) raises BoardConfigurationError exactly when fewer
\* than mine_count cells lie at a Chebyshev distance above safe_zone_radius
\* from (x, y); then no tile is a mine and _mines_generated is still False;
\* every other call returns and leaves _mines_generated True.
C24_PlacementFailsWhenInfeasible == [][C24_PlaceStep]_vars

\* place_mines was refused: the safe zone left fewer cells than mines
C24_Witness ==
    /\ last.op = "place_mines" /\ last.raised = BoardConfigurationError
    /\ Cardinality({c \in Cells : Chebyshev(c, LastCell) > safe_zone_radius})
           < mine_count
    /\ ~mines_generated /\ Mines = {}

\* the methods of the Board that take a cell
CellCalls == {"Board.get_tile", "Board.get_tile_state",
              "Board.get_adjacent_mines", "Board.is_mine",
              "Board.open_tile", "Board.toggle_flag", "Board.place_mines"}

C25_OutsideStep ==
    (last'.call \in CellCalls /\ ~in_bounds(last'.x, last'.y)) =>
        /\ last'.raised = BoardCoordinatesError
        /\ last'.returned = {}
        /\ last'.changed = << >> /\ last'.delta = 0
        /\ ~last'.placed /\ ~last'.exploded /\ ~last'.won
        /\ UNCHANGED boardVars

\* C25: get_tile, get_tile_state, get_adjacent_mines, is_mine, open_tile,
\* toggle_flag and place_mines, called with x outside 0..width-1 or y
\* outside 0..height-1, raise BoardCoordinatesError, return nothing, and
\* leave every tile and _mines_generated as they were.
C25_OutsideRaises == [][C25_OutsideStep]_vars

\* a getter was refused for a column one past the last one, on a board
\* that has its mines and a Flagged tile
C25_Witness ==
    /\ last.call = "Board.get_tile_state" /\ last.x = width
    /\ last.raised = BoardCoordinatesError
    /\ mines_generated
    /\ \E c \in Cells : tiles[c].state = FLAGGED

\* a getter called inside the board returned what the tile holds
C25_WitnessInside ==
    /\ last.call = "Board.is_mine" /\ last.raised = NoError
    /\ last.returned = {tiles[LastCell].is_mine}
    /\ tiles[LastCell].is_mine

\* the cells whose state the step changes
StateChanged == {c \in Cells : tiles'[c].state # tiles[c].state}

\* the cells that the result of the step lists
ChangedListed == {last'.changed[i] : i \in 1 .. Len(last'.changed)}

\* C26: the changed list of every open_tile call that returns holds exactly
\* the cells whose state after the call differs from their state before
\* it, the call that places the mines included.
C26_ChangedIsTheDifference == [][OpenStep => ChangedListed = StateChanged]_vars

C27_MineStep ==
    (OpenStep /\ tiles[StepCell].is_mine
              /\ tiles[StepCell].state # REVEALED) =>
        /\ tiles' = [tiles EXCEPT ![StepCell].state = REVEALED]
        /\ last'.changed = << StepCell >>
        /\ last'.exploded /\ ~last'.won
        /\ ~last'.flood /\ ~last'.placed
        /\ mines_generated' = mines_generated

\* C27: open_tile on a mine that is not Revealed, Hidden or marked, sets
\* the state of that tile to REVEALED and changes nothing else on the
\* board; it returns changed = [(x, y)], exploded = True and won = False,
\* and starts no flood, though adjacent_mines of a mine is 0.
C27_MineHitRevealsOneTile == [][C27_MineStep]_vars

\* a Flagged mine was opened next to tiles that are still Hidden
C27_Witness ==
    /\ last.op = "open_tile" /\ last.exploded
    /\ last.changed = << LastCell >>
    /\ tiles[LastCell].is_mine /\ tiles[LastCell].adjacent_mines = 0
    /\ \E c \in Cells :
           /\ Chebyshev(c, LastCell) = 1
           /\ ~tiles[c].is_mine /\ tiles[c].state = HIDDEN
    /\ \E c \in Cells : tiles[c].state = FLAGGED

C28_RevealedStep ==
    (OpenStep /\ mines_generated /\ tiles[StepCell].state = REVEALED) =>
        /\ UNCHANGED boardVars
        /\ last'.changed = << >>
        /\ ~last'.exploded
        /\ last'.won = is_win(tiles)
        /\ ~last'.placed /\ ~last'.flood

\* C28: on a board whose mines are placed, open_tile on a tile that is
\* Revealed changes no tile and returns changed = [], exploded = False and
\* won = is_win().
C28_RevealedTileIsNoOp == [][C28_RevealedStep]_vars

\* a Revealed tile of a won board was opened again, and the call returned
\* won = True
C28_Witness ==
    /\ last.op = "open_tile" /\ last.raised = NoError
    /\ last.changed = << >> /\ last.won
    /\ mines_generated /\ Mines # {}
    /\ tiles[LastCell].state = REVEALED

\* a Revealed mine was opened again: the call returned exploded = False
C28_WitnessLost ==
    /\ last.op = "open_tile" /\ last.raised = NoError
    /\ last.changed = << >> /\ ~last.won /\ ~last.exploded
    /\ tiles[LastCell].state = REVEALED /\ tiles[LastCell].is_mine

\* C29: the propagation ends, and the changed list it returns names no
\* cell twice and has at most width * height entries: a cell that is
\* popped again after it was revealed is skipped.
C29_FloodListsEachCellOnce ==
    (last.op = "open_tile" /\ last.flood) =>
        /\ Len(last.changed) <= width * height
        /\ \A i, j \in 1 .. Len(last.changed) :
               last.changed[i] = last.changed[j] => i = j
        /\ \A i \in 1 .. Len(last.changed) :
               tiles[last.changed[i]].state = REVEALED

\* the propagation revealed every tile but the mine: each zero tile inside
\* the board was pushed by several of its neighbours
C29_Witness ==
    /\ last.op = "open_tile" /\ last.flood
    /\ mines_generated
    /\ Len(last.changed) = width * height - mine_count
    /\ \E c \in Cells :
           /\ IsZero(tiles, c)
           /\ \A n \in Cells : Chebyshev(c, n) = 1 => IsZero(tiles, n)

\* what placement writes in a tile and no reveal or mark does
Placement(t) ==
    [c \in Cells |-> <<t[c].is_mine, t[c].adjacent_mines, t[c].content>>]

C30_LazyStep ==
    /\ ~mines_generated => \A c \in Cells : ~tiles[c].is_mine
    /\ (~mines_generated /\ mines_generated') =>
           /\ last'.raised = NoError
           /\ \/ last'.op = "place_mines"
              \/ last'.op = "open_tile" /\ last'.safe_first_click
                                         /\ last'.placed
    /\ (~mines_generated /\ last'.op = "open_tile"
                         /\ ~last'.safe_first_click) =>
           ~mines_generated' /\ ~last'.placed
    /\ (~mines_generated /\ last'.op = "toggle_flag") => ~mines_generated'
    /\ (mines_generated /\ last'.op \in {"open_tile", "toggle_flag"}) =>
           /\ mines_generated'
           /\ ~last'.placed
           /\ Placement(tiles') = Placement(tiles)

\* C30: a new board has no mine and _mines_generated False, and keeps
\* both until a call places the mines: open_tile with safe_first_click, when
\* it returns, or place_mines itself; toggle_flag and open_tile without
\* safe_first_click place nothing.  Once _mines_generated is True, no
\* open_tile or toggle_flag changes is_mine, adjacent_mines or content of a
\* tile, and open_tile does not run place_mines again.
C30_MinesArePlacedLazily == [][C30_LazyStep]_vars

\* a tile was revealed on a board that had its mines: the mines and the
\* counts are those of the placement, with a numbered tile among them
C30_Witness ==
    /\ last.op = "open_tile" /\ last.raised = NoError
    /\ last.safe_first_click /\ ~last.placed
    /\ Len(last.changed) > 0
    /\ mines_generated /\ Cardinality(Mines) = mine_count
    /\ \E c \in Cells : tiles[c].adjacent_mines > 0

\* marks and a reveal without safe_first_click were made, and the board
\* has no mines yet
C30_WitnessNotYet ==
    /\ ~mines_generated /\ Mines = {}
    /\ \E c \in Cells : tiles[c].state = REVEALED
    /\ \E c \in Cells : tiles[c].state = FLAGGED

C31_PausedStep ==
    /\ is_paused => status = IN_PROGRESS
    /\ is_paused' => status' = IN_PROGRESS
    /\ (is_paused /\ status' # status) =>
           /\ CallStep("GameSession.restart")
           /\ status' = NOT_STARTED /\ ~is_paused'

\* C31: a paused session is IN_PROGRESS: the pause is never set while the
\* status is NOT_STARTED, WON or LOST, and while the session is paused the
\* status changes only by restart(), which clears the pause.
C31_PausedIsInProgress == [][C31_PausedStep]_vars

\* a paused game refused a reveal and a mark, and is still paused
C31_Witness ==
    /\ is_paused /\ status = IN_PROGRESS
    /\ last.call \in {"GameSession.open_tile", "GameSession.toggle_flag"}
    /\ last.returned_none

\* C32: the timer is running exactly when the status is IN_PROGRESS and
\* the session is not paused, after any calls of open_tile, toggle_flag,
\* pause, resume, toggle_pause and restart.
C32_TimerRunsWhilePlaying ==
    running <=> (status = IN_PROGRESS /\ ~is_paused)

\* toggle_pause() ended a pause and the timer runs on from the time it had
C32_Witness ==
    /\ last.call = "GameSession.toggle_pause"
    /\ status = IN_PROGRESS /\ ~is_paused /\ running
    /\ accumulated_time > 0

\* toggle_pause() paused the game
C32_WitnessPaused ==
    /\ last.call = "GameSession.toggle_pause"
    /\ status = IN_PROGRESS /\ is_paused /\ ~running

\* mine_count minus the number of tiles that are Flagged
FlagsLeft == mine_count - Cardinality(FlaggedCells)

\* C33: after any calls of open_tile and toggle_flag on the session, marks
\* made before the first reveal and reveals of marked tiles included,
\* remaining_flags is mine_count minus the number of Flagged tiles whenever
\* that difference lies in 0..mine_count.
C33_RemainingFlagsCountsFlags ==
    FlagsLeft \in 0 .. mine_count => remaining_flags = FlagsLeft

\* the visibility of every tile
Visibility(t) == [c \in Cells |-> t[c].state]

C34_RaisedStep ==
    (last'.call = "GameSession.open_tile" /\ last'.raised # NoError) =>
        /\ UNCHANGED <<status, is_paused, remaining_flags, timerVars>>
        /\ Visibility(tiles') = Visibility(tiles)

\* C34: a reveal of the session that raises, for coordinates outside the
\* board or for a safe zone that leaves too few cells for the mines, leaves
\* the status, the pause, the timer, remaining_flags and the state of
\* every tile as they were before the call.
C34_RaisedRevealChangesNothing == [][C34_RaisedStep]_vars

C35_StatusStep ==
    status' # status =>
        \/ CallStep("GameSession.restart") /\ status' = NOT_STARTED
        \/ /\ CallStep("GameSession.open_tile")
           /\ \/ status = NOT_STARTED /\ status' \in {IN_PROGRESS, WON, LOST}
              \/ status = IN_PROGRESS /\ status' \in {WON, LOST}

\* C35: the status moves forward only: from NOT_STARTED to IN_PROGRESS, WON
\* or LOST and from IN_PROGRESS to WON or LOST, by open_tile; WON and LOST
\* are left by restart() alone, which is also the only way back to
\* NOT_STARTED; toggle_flag, pause and resume never change the status.
C35_StatusMovesForward == [][C35_StatusStep]_vars

\* a lost game refused the reveal of the tile that would have won it
C35_Witness ==
    /\ status = LOST
    /\ last.call = "GameSession.open_tile" /\ last.returned_none
    /\ LastSafeTile(tiles, LastCell)

C36_RevealedStep ==
    last'.op \in {"open_tile", "toggle_flag"} =>
        \A c \in Cells :
            tiles[c].state = REVEALED => tiles'[c].state = REVEALED

\* C36: a tile that is Revealed stays Revealed: no call of open_tile, with
\* safe_first_click or without, and no call of toggle_flag puts it back to
\* Hidden, Flagged or Question.
C36_RevealedStaysRevealed == [][C36_RevealedStep]_vars

\* the mines that are Revealed
RevealedMines == {c \in Cells : tiles[c].is_mine /\ tiles[c].state = REVEALED}

\* C37: the status is LOST exactly when one mine is Revealed, and then no
\* second one is; in every other status no mine is Revealed.
C37_LostIsOneRevealedMine ==
    /\ status = LOST <=> Cardinality(RevealedMines) = 1
    /\ status # LOST => RevealedMines = {}

\* a game was lost on a mine while a tile without a mine was still Hidden
\* and another tile was Flagged
C37_Witness ==
    /\ status = LOST
    /\ last.call = "GameSession.open_tile" /\ last.exploded
    /\ RevealedMines = {LastCell}
    /\ \E c \in Cells : ~tiles[c].is_mine /\ tiles[c].state = HIDDEN

\* C38: the status is WON exactly when is_win() holds of the board: a
\* session that is NOT_STARTED, IN_PROGRESS or LOST has a tile without a
\* mine that is not Revealed.
C38_WonIsBoardWin == status = WON <=> is_win(tiles)

\* a game was won by a reveal made after the one that placed the mines
C38_Witness ==
    /\ status = WON /\ is_win(tiles)
    /\ last.call = "GameSession.open_tile" /\ last.won /\ ~last.placed
    /\ Mines # {}

\* a game was lost with tiles left to reveal
C38_WitnessLost ==
    /\ status = LOST /\ ~is_win(tiles)
    /\ last.call = "GameSession.open_tile" /\ last.exploded

C39_MarkStep ==
    (CallStep("GameSession.toggle_flag") /\ ~last'.returned_none) =>
        /\ UNCHANGED <<status, is_paused, timerVars, mines_generated>>
        /\ Placement(tiles') = Placement(tiles)
        /\ \A c \in Cells \ {StepCell} : tiles'[c] = tiles[c]
        /\ \A c \in Cells :
               tiles'[c].state = REVEALED => tiles[c].state = REVEALED
        /\ remaining_flags' # remaining_flags => last'.delta # 0

\* C39: a toggle_flag that the session accepts changes at most the state
\* of the tile it names and remaining_flags: the status, the pause, the
\* timer, _mines_generated and is_mine, adjacent_mines and content of
\* every tile stay as they are, and no tile becomes Revealed.
C39_MarkChangesOneTileAndFlags == [][C39_MarkStep]_vars

\* a mark was set before the first reveal: the game is still NOT_STARTED
\* and its timer stopped
C39_Witness ==
    /\ last.call = "GameSession.toggle_flag" /\ last.delta = 1
    /\ tiles[LastCell].state = FLAGGED
    /\ status = NOT_STARTED /\ ~running /\ ~mines_generated
    /\ remaining_flags = mine_count - 1

\* C40: whatever methods of AppStateManager are called, with reveals and
\* marks on the session in between: on PAUSE_MENU there is a session and it
\* is paused; on GAME_OVER there is a session and it is WON or LOST; on
\* GAME the session, if there is one, is not paused.
C40_ScreenAgreesWithSession ==
    /\ current_screen = PAUSE_MENU => session # None /\ is_paused
    /\ current_screen = GAME_OVER =>
           session # None /\ status \in {WON, LOST}
    /\ current_screen = GAME => session = None \/ ~is_paused

\* a paused game with a Flagged tile was resumed: the screen is GAME and
\* the session runs on
C40_Witness ==
    /\ last.call = "AppStateManager.resume_game"
    /\ current_screen = GAME /\ session # None
    /\ status = IN_PROGRESS /\ ~is_paused /\ running
    /\ \E c \in Cells : tiles[c].state = FLAGGED

\* the result of a lost game is on the screen
C40_WitnessGameOver ==
    /\ last.call = "AppStateManager.show_game_over"
    /\ current_screen = GAME_OVER /\ status = LOST

\* the pause menu is up
C40_WitnessPaused ==
    /\ current_screen = PAUSE_MENU /\ is_paused /\ ~running

=============================================================================
